---------------------------- MODULE Spec2Model ----------------------------
(***************************************************************************)
(* A model of pylinac's NCS-18 helper module (pylinac/ncs18.py): the       *)
(* correction functions k_tp, k_pol, r_50, k_s, k_q and m_corrected, the   *)
(* three module-level lookup tables, and the calibration aggregate         *)
(* NCS18Base that composes them.                                           *)
(*                                                                         *)
(* Numbers.  Python floats are modelled by exact rationals <<n, d>> in     *)
(* lowest terms with d > 0; floating-point rounding error is not           *)
(* modelled.  The IEEE values numpy's scalar division can produce are      *)
(* Inf = <<1, 0>>, NegInf = <<-1, 0>> and NaN = <<0, 0>>.  Python's None   *)
(* is <<0, -1>>.                                                           *)
(***************************************************************************)
EXTENDS Integers, Sequences, FiniteSets, TLC

VARIABLES
    RECOMBINATION_COHORTS,  \* module global, NCS 18 Table 4
    CHAMBERS_PHOTONS,       \* module global, NCS 18 Table 10
    CHAMBERS_ELECTRONS,     \* module global, electron chamber fits
    call,                   \* the invocation in progress, or NoCall
    outcome,                \* how that invocation ended (status, value)
    warnings,               \* categories passed to warn() by that invocation
    base,                   \* the NCS18Base instance, or NoBase
    seen                    \* per exposed property of base: what its first read gave

vars == <<RECOMBINATION_COHORTS, CHAMBERS_PHOTONS, CHAMBERS_ELECTRONS,
          call, outcome, warnings, base, seen>>

tables == <<RECOMBINATION_COHORTS, CHAMBERS_PHOTONS, CHAMBERS_ELECTRONS>>

----------------------------------------------------------------------------
(* Bounds of the model. *)

\* longest reading collection
MaxLen == 2
\* readings are integers in -MaxReading .. MaxReading
MaxReading == 1
\* largest "normal" voltage
MaxVolt == 22
\* largest magnitude of the "low" voltage (kept below 20: see round1)
MaxVoltLow == 5
\* largest I50 depth, in tenths of a centimetre
MaxI50Tenths == 105

----------------------------------------------------------------------------
(* Float arithmetic on exact rationals. *)

None == <<0, -1>>
Inf == <<1, 0>>
NegInf == <<-1, 0>>
NaN == <<0, 0>>

Abs(x) == IF x < 0 THEN -x ELSE x

RECURSIVE GCD(_, _)
GCD(a, b) == IF b = 0 THEN Abs(a) ELSE GCD(b, a % Abs(b))

\* the float n/d, d # 0, in lowest terms with a positive denominator
Rat(n, d) ==
    LET g == GCD(n, d)
        s == IF d < 0 THEN -1 ELSE 1
    IN  <<s * (n \div g), s * (d \div g)>>

IsFinite(x) == x[2] > 0

sign(x) == IF x[1] > 0 THEN 1 ELSE IF x[1] < 0 THEN -1 ELSE 0

\* x < y on finite floats
RLess(x, y) == x[1] * y[2] < y[1] * x[2]

RNeg(x) == <<-x[1], x[2]>>

RAbs(x) == <<Abs(x[1]), x[2]>>

\* x + y on finite floats, over the least common denominator
RAdd(x, y) ==
    LET l == (x[2] \div GCD(x[2], y[2])) * y[2]
    IN  Rat(x[1] * (l \div x[2]) + y[1] * (l \div y[2]), l)

RSub(x, y) == RAdd(x, RNeg(y))

\* x * y: IEEE rules for the non-finite values, cross-reduced otherwise
RMul(x, y) ==
    IF x = NaN \/ y = NaN THEN NaN
    ELSE IF ~IsFinite(x) \/ ~IsFinite(y)
         THEN IF sign(x) * sign(y) = 0 THEN NaN
              ELSE IF sign(x) * sign(y) > 0 THEN Inf ELSE NegInf
    ELSE LET g1 == GCD(x[1], y[2])
             g2 == GCD(y[1], x[2])
         IN  IF x[1] = 0 \/ y[1] = 0 THEN <<0, 1>>
             ELSE <<(x[1] \div g1) * (y[1] \div g2), (x[2] \div g2) * (y[2] \div g1)>>

\* x / y on finite numpy.float64 scalars: division by zero gives inf or nan
NpDiv(x, y) ==
    IF y[1] = 0
    THEN IF x[1] > 0 THEN Inf ELSE IF x[1] < 0 THEN NegInf ELSE NaN
    ELSE RMul(x, Rat(y[2], y[1]))

RECURSIVE Sum(_)
Sum(s) == IF s = <<>> THEN 0 ELSE Head(s) + Sum(Tail(s))

\* numpy.mean of a non-empty collection (a scalar is a collection of one)
mean(m) == Rat(Sum(m), Len(m))

----------------------------------------------------------------------------
(* Outcomes of an invocation. *)

Returned(v) == [status |-> "returned", message |-> "", value |-> v, warnings |-> <<>>]

Raised(e, msg, w) == [status |-> e, message |-> msg, value |-> None, warnings |-> w]

NoCall == [fn |-> "none"]
NoOutcome == [status |-> "none", message |-> "", value |-> None]
NoBase == [built |-> FALSE]

----------------------------------------------------------------------------
(* k_pol, r_50, m_corrected *)

\* k_pol with the magnitudes left out: positive minus the normalised negative
k_pol_noabs(m_reference, m_negative, m_positive) ==
    LET m_negative_avg == mean(m_negative)
        m_positive_avg == mean(m_positive)
        m_reference_avg == mean(m_reference)
        flipped == IF sign(m_negative_avg) = sign(m_positive_avg)
                   THEN RNeg(m_negative_avg)
                   ELSE m_negative_avg
    IN  Returned(NpDiv(RSub(m_positive_avg, flipped),
                       RMul(<<2, 1>>, m_reference_avg)))

k_pol(m_reference, m_negative, m_positive) ==
    LET m_negative_avg == mean(m_negative)
        m_positive_avg == mean(m_positive)
        m_reference_avg == mean(m_reference)
        flipped == IF sign(m_negative_avg) = sign(m_positive_avg)
                   THEN RNeg(m_negative_avg)
                   ELSE m_negative_avg
    IN  Returned(NpDiv(RAdd(RAbs(m_positive_avg), RAbs(flipped)),
                       RMul(<<2, 1>>, m_reference_avg)))

\* r_50 with the boundary depth of 10 cm sent to the second branch
r_50_lt(i_50) ==
    IF RLess(i_50, <<10, 1>>)
    THEN Returned(RSub(RMul(Rat(1029, 1000), i_50), Rat(6, 100)))
    ELSE Returned(RSub(RMul(Rat(159, 100), i_50), Rat(37, 100)))

r_50(i_50) ==
    IF ~RLess(<<10, 1>>, i_50)
    THEN Returned(RSub(RMul(Rat(1029, 1000), i_50), Rat(6, 100)))
    ELSE Returned(RSub(RMul(Rat(159, 100), i_50), Rat(37, 100)))

\* m_corrected with the recombination correction left out
m_corrected_no_k_s(k_tp_, k_pol_, k_s_, m_raw) ==
    Returned(RMul(RMul(k_tp_, k_pol_), mean(m_raw)))

m_corrected(k_tp_, k_pol_, k_s_, m_raw) ==
    Returned(RMul(RMul(RMul(k_tp_, k_pol_), k_s_), mean(m_raw)))

----------------------------------------------------------------------------
(* The lookup tables as the module defines them. *)

\* Quadratic fit coefficients per voltage ratio U1/U2, highest degree first
Table4 ==
    (Rat(20, 10) :> <<Rat(2299, 1000), Rat(-3636, 1000), Rat(2337, 1000)>>) @@
    (Rat(25, 10) :> <<Rat(1114, 1000), Rat(-1587, 1000), Rat(1474, 1000)>>) @@
    (Rat(30, 10) :> <<Rat(677, 1000), Rat(-875, 1000), Rat(1198, 1000)>>) @@
    (Rat(35, 10) :> <<Rat(463, 1000), Rat(-542, 1000), Rat(1080, 1000)>>) @@
    (Rat(40, 10) :> <<Rat(341, 1000), Rat(-363, 1000), Rat(1022, 1000)>>) @@
    (Rat(50, 10) :> <<Rat(2135, 10000), Rat(-1875, 10000), Rat(9745, 10000)>>) @@
    (Rat(60, 10) :> <<Rat(1495, 10000), Rat(-1075, 10000), Rat(9584, 10000)>>) @@
    (Rat(80, 10) :> <<Rat(8750, 100000), Rat(-3732, 100000), Rat(9502, 10000)>>) @@
    (Rat(100, 10) :> <<Rat(5909, 100000), Rat(-1041, 100000), Rat(9516, 10000)>>)

PTW30012 == [X0 |-> Rat(9198, 10000), C |-> Rat(1167, 100), A |-> Rat(80, 100)]
NE2561 == [X0 |-> Rat(8971, 10000), C |-> Rat(1515, 100), A |-> Rat(80, 100)]

Table10 ==
    ("30012" :> PTW30012) @@ ("FC65-G" :> PTW30012) @@ ("2561" :> NE2561) @@
    ("2571" :> PTW30012) @@ ("2611A" :> NE2561)

PTW30010 == [A |-> Rat(9345, 10000), B |-> Rat(57, 10000), C |-> Rat(7733, 10000)]

ElectronTable ==
    ("30010" :> PTW30010) @@ ("FC65G" :> PTW30010) @@ ("2571" :> PTW30010) @@
    ("NACP02" :> [A |-> Rat(11955, 10000), B |-> Rat(2274, 10000), C |-> Rat(1479, 10000)]) @@
    ("Roos" :> [A |-> Rat(11376, 10000), B |-> Rat(1700, 10000), C |-> Rat(1835, 10000)])

----------------------------------------------------------------------------
(* k_s *)

\* min() and max() of a dict: of its keys
min(d) == CHOOSE k \in DOMAIN d : \A j \in DOMAIN d : ~RLess(j, k)
max(d) == CHOOSE k \in DOMAIN d : \A j \in DOMAIN d : ~RLess(k, j)

\* round(n / d, 1): the nearest tenth, an exact tie going to the even tenth.
\* A quotient that is a decimal tie is an exact binary tie only when it is a
\* multiple of 1/4, which is the only kind of tie with |d| < 20 or d = -133.
round1(n, d) ==
    LET num == IF d < 0 THEN -10 * n ELSE 10 * n
        den == Abs(d)
        q == num \div den
        r == num - q * den
    IN  IF 2 * r < den THEN Rat(q, 10)
        ELSE IF 2 * r > den THEN Rat(q + 1, 10)
        ELSE IF q % 2 = 0 THEN Rat(q, 10) ELSE Rat(q + 1, 10)

\* numpy.polyval: y = 0; for pv in p: y = y * x + pv
RECURSIVE Horner(_, _, _)
Horner(p, x, y) ==
    IF p = <<>> THEN y ELSE Horner(Tail(p), x, RAdd(RMul(y, x), Head(p)))

\* with x = inf or nan the first step 0 * x is already nan
poly1d(p, x) == IF IsFinite(x) THEN Horner(p, x, <<0, 1>>) ELSE NaN

\* k_s falling back, for a ratio between two table entries, on the entry below
k_s_floor(volt_normal, volt_low, m_normal, m_low) ==
    IF volt_low = 0 THEN Raised("ZeroDivisionError", "division by zero", <<>>)
    ELSE
    LET ratio == round1(volt_normal, volt_low)
        warned == IF RLess(ratio, <<3, 1>>) THEN <<"RuntimeWarning">> ELSE <<>>
        below == {k \in DOMAIN RECOMBINATION_COHORTS : ~RLess(ratio, k)}
        entry == CHOOSE k \in below : \A j \in below : ~RLess(k, j)
    IN  IF RLess(ratio, min(RECOMBINATION_COHORTS))
           \/ RLess(max(RECOMBINATION_COHORTS), ratio)
        THEN Raised("ValueError", "Unsupported ratio of voltages", warned)
        ELSE [status |-> "returned",
              message |-> "",
              value |-> poly1d(RECOMBINATION_COHORTS[entry],
                               NpDiv(mean(m_normal), mean(m_low))),
              warnings |-> warned]

\* k_s warning up to and including the recommended ratio of 3
k_s_warn_le(volt_normal, volt_low, m_normal, m_low) ==
    IF volt_low = 0 THEN Raised("ZeroDivisionError", "division by zero", <<>>)
    ELSE
    LET ratio == round1(volt_normal, volt_low)
        warned == IF ~RLess(<<3, 1>>, ratio) THEN <<"RuntimeWarning">> ELSE <<>>
    IN  IF RLess(ratio, min(RECOMBINATION_COHORTS))
           \/ RLess(max(RECOMBINATION_COHORTS), ratio)
        THEN Raised("ValueError", "Unsupported ratio of voltages", warned)
        ELSE IF ratio \in DOMAIN RECOMBINATION_COHORTS
        THEN [status |-> "returned",
              message |-> "",
              value |-> poly1d(RECOMBINATION_COHORTS[ratio],
                               NpDiv(mean(m_normal), mean(m_low))),
              warnings |-> warned]
        ELSE Raised("ValueError", "Unsupported ratio of voltages", warned)

k_s(volt_normal, volt_low, m_normal, m_low) ==
    IF volt_low = 0 THEN Raised("ZeroDivisionError", "division by zero", <<>>)
    ELSE
    LET ratio == round1(volt_normal, volt_low)
        warned == IF RLess(ratio, <<3, 1>>) THEN <<"RuntimeWarning">> ELSE <<>>
    IN  IF RLess(ratio, min(RECOMBINATION_COHORTS))
           \/ RLess(max(RECOMBINATION_COHORTS), ratio)
        THEN Raised("ValueError", "Unsupported ratio of voltages", warned)
        ELSE IF ratio \in DOMAIN RECOMBINATION_COHORTS
        THEN [status |-> "returned",
              message |-> "",
              value |-> poly1d(RECOMBINATION_COHORTS[ratio],
                               NpDiv(mean(m_normal), mean(m_low))),
              warnings |-> warned]
        ELSE Raised("ValueError", "Unsupported ratio of voltages", warned)

----------------------------------------------------------------------------
(* k_q *)

TPR_LOW == Rat(623, 1000)
TPR_HIGH == Rat(805, 1000)

\* Python truth value of an optional number: None and 0 are false
truthy(v) == v # None /\ v[1] # 0

\* k_q rejecting "both" only when both are non-zero
k_q_both_truthy(model, tpr, r50) ==
    IF ~(truthy(tpr) \/ truthy(r50))
    THEN Raised("ValueError",
                "At least one of the parameters tpr or r_50 must be defined.", <<>>)
    ELSE IF truthy(tpr) /\ truthy(r50)
    THEN Raised("ValueError",
                "Cannot define both a photon component (TPR) and an electron component (R50)",
                <<>>)
    ELSE IF tpr # None
    THEN IF RLess(TPR_HIGH, tpr) \/ RLess(tpr, TPR_LOW)
         THEN Raised("ValueError", "Measured TPR is out of range", <<>>)
         ELSE IF model \in DOMAIN CHAMBERS_PHOTONS
         THEN Returned([eq |-> 30, ch |-> CHAMBERS_PHOTONS[model], x |-> tpr])
         ELSE Raised("KeyError", model, <<>>)
    ELSE IF r50 # None
    THEN IF model \in DOMAIN CHAMBERS_ELECTRONS
         THEN Returned([eq |-> 37, ch |-> CHAMBERS_ELECTRONS[model], x |-> r50])
         ELSE Raised("KeyError", model, <<>>)
    ELSE Returned(None)

\* The sigmoid (eq 30) and the power law (eq 37) need exp and a fractional
\* power; the factor returned is kept as the equation with its arguments.
k_q(model, tpr, r50) ==
    IF ~(truthy(tpr) \/ truthy(r50))
    THEN Raised("ValueError",
                "At least one of the parameters tpr or r_50 must be defined.", <<>>)
    ELSE IF truthy(tpr) /\ r50 # None
    THEN Raised("ValueError",
                "Cannot define both a photon component (TPR) and an electron component (R50)",
                <<>>)
    ELSE IF tpr # None
    THEN IF RLess(TPR_HIGH, tpr) \/ RLess(tpr, TPR_LOW)
         THEN Raised("ValueError", "Measured TPR is out of range", <<>>)
         ELSE IF model \in DOMAIN CHAMBERS_PHOTONS
         THEN Returned([eq |-> 30, ch |-> CHAMBERS_PHOTONS[model], x |-> tpr])
         ELSE Raised("KeyError", model, <<>>)
    ELSE IF r50 # None
    THEN IF model \in DOMAIN CHAMBERS_ELECTRONS
         THEN Returned([eq |-> 37, ch |-> CHAMBERS_ELECTRONS[model], x |-> r50])
         ELSE Raised("KeyError", model, <<>>)
    ELSE Returned(None)

----------------------------------------------------------------------------
(* k_tp *)

\* A quantity: magnitude * (Pa per mmHg)^hg in the given units.  One mmHg is
\* 133.322387415 Pa, a factor too long for the model's integers, so it is
\* carried as a power; no ratio of the model's numbers equals it.
Q_(v, units) == [magnitude |-> v, hg |-> 0, units |-> units]

\* a plain number, not a Quantity
Float(v) == [magnitude |-> v, hg |-> 0, units |-> "float"]

to_base_units(q) ==
    CASE q.units = "celsius" ->
            [q EXCEPT !.magnitude = RAdd(@, Rat(27315, 100)), !.units = "kelvin"]
      [] q.units = "fahrenheit" ->
            [q EXCEPT !.magnitude = RMul(RAdd(@, Rat(45967, 100)), Rat(5, 9)),
                      !.units = "kelvin"]
      [] q.units = "kelvin" -> q
      [] q.units = "mbar" ->
            [q EXCEPT !.magnitude = RMul(@, <<100, 1>>), !.units = "pascal"]
      [] q.units = "kPa" ->
            [q EXCEPT !.magnitude = RMul(@, <<1000, 1>>), !.units = "pascal"]
      [] q.units = "mmHg" ->
            [q EXCEPT !.hg = @ + 1, !.units = "pascal"]

\* Quantity.to(units), as the tests use it to build their inputs
to(q, units) ==
    LET b == to_base_units(q)
    IN  CASE units = "fahrenheit" ->
                [b EXCEPT !.magnitude = RSub(RMul(@, Rat(9, 5)), Rat(45967, 100)),
                          !.units = units]
          [] units = "celsius" ->
                [b EXCEPT !.magnitude = RSub(@, Rat(27315, 100)), !.units = units]
          [] units = "kPa" ->
                [b EXCEPT !.magnitude = RMul(@, Rat(1, 1000)), !.units = units]
          [] units = "mmHg" ->
                [b EXCEPT !.hg = @ - 1, !.units = units]

\* the number a dimensionless quantity stands for
Dimensionless(m, hg) == IF hg = 0 THEN m ELSE <<m[1], m[2], hg>>

\* k_tp reading a bare pressure as kPa, the unit of its own default
k_tp_kpa(temp, press) ==
    LET t == IF temp.units = "float" THEN Q_(temp.magnitude, "celsius") ELSE temp
        p == IF press.units = "float" THEN Q_(press.magnitude, "kPa") ELSE press
        t0 == Q_(<<20, 1>>, "celsius")
        p0 == Q_(Rat(101325, 1000), "kPa")
        tb == to_base_units(t)
        t0b == to_base_units(t0)
        p0b == to_base_units(p0)
        pb == to_base_units(p)
    IN  IF pb.magnitude[1] = 0
        THEN Raised("ZeroDivisionError", "float division by zero", <<>>)
        ELSE Returned(Dimensionless(
                 NpDiv(RMul(NpDiv(tb.magnitude, t0b.magnitude), p0b.magnitude),
                       pb.magnitude),
                 tb.hg - t0b.hg + p0b.hg - pb.hg))

k_tp(temp, press) ==
    LET t == IF temp.units = "float" THEN Q_(temp.magnitude, "celsius") ELSE temp
        p == IF press.units = "float" THEN Q_(press.magnitude, "mbar") ELSE press
        t0 == Q_(<<20, 1>>, "celsius")
        p0 == Q_(Rat(101325, 1000), "kPa")
        tb == to_base_units(t)
        t0b == to_base_units(t0)
        p0b == to_base_units(p0)
        pb == to_base_units(p)
    IN  IF pb.magnitude[1] = 0
        THEN Raised("ZeroDivisionError", "float division by zero", <<>>)
        ELSE Returned(Dimensionless(
                 NpDiv(RMul(NpDiv(tb.magnitude, t0b.magnitude), p0b.magnitude),
                       pb.magnitude),
                 tb.hg - t0b.hg + p0b.hg - pb.hg))

----------------------------------------------------------------------------
(* The calibration aggregate NCS18Base. *)

NCS18Base(temp, press, model, volt_reference, volt_low, m_raw, m_reference, m_opposite, m_low, adjusted_m_raw) ==
    [built |-> TRUE, temp |-> temp, press |-> press, model |-> model,
     volt_reference |-> volt_reference, volt_low |-> volt_low,
     m_raw |-> m_raw, m_reference |-> m_reference, m_opposite |-> m_opposite,
     m_low |-> m_low, adjusted_m_raw |-> adjusted_m_raw]

Properties == {"k_tp", "k_pol", "k_s", "m_corrected", "adjusted_m_corrected"}

Base_k_tp(self) == k_tp(self.temp, self.press)

Base_k_pol(self) == k_pol(self.m_reference, self.m_opposite, self.m_reference)

Base_k_s(self) == k_s(self.volt_reference, self.volt_low, self.m_reference, self.m_low)

\* the three factors are derived in turn; the first that raises ends the read
Base_corrected(self, raw) ==
    LET t == Base_k_tp(self)
        p == Base_k_pol(self)
        s == Base_k_s(self)
    IN  IF t.status # "returned" THEN t
        ELSE IF p.status # "returned" THEN p
        ELSE IF s.status # "returned" THEN s
        ELSE [m_corrected(t.value, p.value, s.value, raw) EXCEPT !.warnings = s.warnings]

Base_get(self, property) ==
    CASE property = "k_tp" -> Base_k_tp(self)
      [] property = "k_pol" -> Base_k_pol(self)
      [] property = "k_s" -> Base_k_s(self)
      [] property = "m_corrected" -> Base_corrected(self, self.m_raw)
      [] property = "adjusted_m_corrected" -> Base_corrected(self, self.adjusted_m_raw)

Unread == [read |-> FALSE]

----------------------------------------------------------------------------
(* Inputs. *)

\* sequences over S of length 1..n in non-decreasing order (the mean of a
\* collection does not depend on the order of its elements)
Sorted(s) == \A i \in 1..(Len(s) - 1) : s[i] <= s[i + 1]

Readings ==
    {s \in UNION {[1..n -> (-MaxReading)..MaxReading] : n \in 1..MaxLen} : Sorted(s)}

Scalars == {<<v>> : v \in (-MaxReading)..MaxReading}

I50s == {Rat(k, 10) : k \in 0..MaxI50Tenths}

Factors == {<<1, 1>>, Rat(101, 100), <<0, 1>>, <<-1, 2>>}

VoltsNormal == (0..MaxVolt) \cup {-400}

VoltsLow == ((-MaxVoltLow)..MaxVoltLow) \cup {-133}

Models == {"30012", "FC65-G", "2561", "2571", "2611A",
           "30010", "FC65G", "NACP02", "Roos", "unknown"}

TPRs == {None, <<0, 1>>, Rat(667, 10000), Rat(622, 1000), Rat(623, 1000),
         Rat(624, 1000), Rat(667, 1000), Rat(804, 1000), Rat(805, 1000),
         Rat(806, 1000), <<1, 1>>}

R50s == {None, <<0, 1>>, <<1, 1>>, r_50(Rat(67, 100)).value, r_50(Rat(616, 100)).value}

Temperatures ==
    {Q_(<<20, 1>>, "celsius"), to(Q_(<<20, 1>>, "celsius"), "fahrenheit"),
     Q_(<<68, 1>>, "fahrenheit"), Q_(Rat(29315, 100), "kelvin"),
     Q_(<<0, 1>>, "kelvin"), Q_(<<20, 1>>, "kelvin"),
     Float(<<20, 1>>), Float(<<25, 1>>), Float(<<15, 1>>)}

Pressures ==
    {Q_(Rat(101325, 100), "mbar"), Q_(Rat(101325, 1000), "kPa"),
     to(Q_(Rat(101325, 100), "mbar"), "mmHg"), Q_(<<760, 1>>, "mmHg"),
     Float(Rat(101325, 100)), Float(Rat(102325, 100)), Float(Rat(100325, 100)),
     Float(Rat(101325, 1000)), Float(<<0, 1>>)}

BaseVolts == {<<-400, -133>>, <<2, 1>>, <<1, 1>>}

BaseReadings == {<<20, 20, 20>>, <<-1>>}

----------------------------------------------------------------------------
(* The module's tables as they are after import. *)

Init ==
    /\ RECOMBINATION_COHORTS = Table4
    /\ CHAMBERS_PHOTONS = Table10
    /\ CHAMBERS_ELECTRONS = ElectronTable
    /\ call = NoCall
    /\ outcome = NoOutcome
    /\ warnings = <<>>
    /\ base = NoBase
    /\ seen = [p \in Properties |-> Unread]

\* what the caller observes of a result r
Observed(r) == [status |-> r.status, message |-> r.message, value |-> r.value]

Call_k_pol ==
    /\ call = NoCall
    /\ \E m_reference \in Readings, m_negative \in Readings, m_positive \in Readings :
          LET r == k_pol(m_reference, m_negative, m_positive)
          IN  /\ call' = [fn |-> "k_pol", m_reference |-> m_reference,
                          m_negative |-> m_negative, m_positive |-> m_positive]
              /\ outcome' = Observed(r)
              /\ warnings' = r.warnings
    /\ UNCHANGED <<tables, base, seen>>

Call_r_50 ==
    /\ call = NoCall
    /\ \E i_50 \in I50s :
          LET r == r_50(i_50)
          IN  /\ call' = [fn |-> "r_50", i_50 |-> i_50]
              /\ outcome' = Observed(r)
              /\ warnings' = r.warnings
    /\ UNCHANGED <<tables, base, seen>>

Call_m_corrected ==
    /\ call = NoCall
    /\ \E a \in Factors, b \in Factors, c \in Factors, m_raw \in Readings :
          LET r == m_corrected(a, b, c, m_raw)
          IN  /\ call' = [fn |-> "m_corrected", k_tp |-> a, k_pol |-> b, k_s |-> c,
                          m_raw |-> m_raw]
              /\ outcome' = Observed(r)
              /\ warnings' = r.warnings
    /\ UNCHANGED <<tables, base, seen>>

Call_k_s ==
    /\ call = NoCall
    /\ \E volt_normal \in VoltsNormal, volt_low \in VoltsLow,
          m_normal \in Readings, m_low \in Scalars :
          LET r == k_s(volt_normal, volt_low, m_normal, m_low)
          IN  /\ call' = [fn |-> "k_s", volt_normal |-> volt_normal,
                          volt_low |-> volt_low, m_normal |-> m_normal, m_low |-> m_low]
              /\ outcome' = Observed(r)
              /\ warnings' = r.warnings
    /\ UNCHANGED <<tables, base, seen>>

Call_k_q ==
    /\ call = NoCall
    /\ \E model \in Models, tpr \in TPRs, r50 \in R50s :
          LET r == k_q(model, tpr, r50)
          IN  /\ call' = [fn |-> "k_q", model |-> model, tpr |-> tpr, r_50 |-> r50]
              /\ outcome' = Observed(r)
              /\ warnings' = r.warnings
    /\ UNCHANGED <<tables, base, seen>>

Call_k_tp ==
    /\ call = NoCall
    /\ \E temp \in Temperatures, press \in Pressures :
          LET r == k_tp(temp, press)
          IN  /\ call' = [fn |-> "k_tp", temp |-> temp, press |-> press]
              /\ outcome' = Observed(r)
              /\ warnings' = r.warnings
    /\ UNCHANGED <<tables, base, seen>>

\* the caller takes the result (or catches the exception) and goes on
Return ==
    /\ call # NoCall
    /\ call' = NoCall
    /\ outcome' = NoOutcome
    /\ warnings' = <<>>
    /\ UNCHANGED <<tables, base, seen>>

Next ==
    \/ Call_k_pol
    \/ Call_r_50
    \/ Call_m_corrected
    \/ Call_k_s
    \/ Call_k_q
    \/ Call_k_tp
    \/ Return

Spec == Init /\ [][Next]_vars

----------------------------------------------------------------------------
(* The aggregate: constructed once from a full record, then only read. *)

New_NCS18Base ==
    /\ base = NoBase
    /\ \E temp \in {Q_(<<20, 1>>, "celsius")},
          press \in {Q_(Rat(101325, 100), "mbar"), Float(Rat(20265, 10))},
          volts \in BaseVolts,
          m_raw \in {<<20, 20, 20>>, <<1, 2>>}, m_reference \in BaseReadings,
          m_opposite \in {<<20, 20, 20>>, <<1, 2>>},
          m_low \in {<<20, 20, 20>>, <<1>>},
          adjusted_m_raw \in {<<20, 20, 20>>, <<1, 2>>} :
          base' = NCS18Base(temp, press, "30012", volts[1], volts[2],
                            m_raw, m_reference, m_opposite, m_low, adjusted_m_raw)
    /\ UNCHANGED <<tables, call, outcome, warnings, seen>>

Get ==
    /\ base # NoBase
    /\ \E property \in Properties :
          LET r == Base_get(base, property)
          IN  /\ call' = [fn |-> "NCS18Base", property |-> property]
              /\ outcome' = Observed(r)
              /\ warnings' = r.warnings
              /\ seen' = IF seen[property] = Unread
                         THEN [seen EXCEPT ![property] =
                                  [read |-> TRUE, outcome |-> Observed(r)]]
                         ELSE seen
    /\ UNCHANGED <<tables, base>>

NextBase ==
    \/ New_NCS18Base
    \/ Get

SpecBase == Init /\ [][NextBase]_vars

----------------------------------------------------------------------------
(* Properties. *)

TabulatedRatios ==
    {Rat(20, 10), Rat(25, 10), Rat(30, 10), Rat(35, 10), Rat(40, 10),
     Rat(50, 10), Rat(60, 10), Rat(80, 10), Rat(100, 10)}

Failed == outcome.status \notin {"none", "returned"}

\* the voltage ratio of the k_s call in progress
CallRatio == round1(call.volt_normal, call.volt_low)

\* C1: k_s returns a value if and only if round(volt_normal / volt_low, 1) is
\* one of the nine tabulated ratios; every other ratio, below 2.0, above 10.0
\* or between two table entries, ends in a ValueError and no value.
C1_KsReturnsIffTabulated ==
    (call.fn = "k_s" /\ call.volt_low # 0) =>
        /\ (outcome.status = "returned") <=> (CallRatio \in TabulatedRatios)
        /\ CallRatio \notin TabulatedRatios =>
              (outcome.status = "ValueError" /\ outcome.value = None)

\* a ratio of 3.6, inside the supported range but not tabulated, is rejected
C1_Witness ==
    /\ call.fn = "k_s"
    /\ call.volt_normal = 18
    /\ call.volt_low = 5
    /\ outcome.status = "ValueError"

\* C2: k_q with both tpr and r_50 supplied, zeros included, or with neither,
\* ends in a ValueError and never returns a factor.
C2_KqBothOrNeitherRejected ==
    (/\ call.fn = "k_q"
     /\ (call.tpr = None) <=> (call.r_50 = None)) =>
        (outcome.status = "ValueError" /\ outcome.value = None)

\* both supplied, tpr being an explicit zero
C2_Witness ==
    /\ call.fn = "k_q"
    /\ call.tpr = <<0, 1>>
    /\ call.r_50 = <<1, 1>>
    /\ outcome.status = "ValueError"

\* C3: with tpr absent and r_50 supplied, an explicit 0 included, and the
\* model in the electron table, k_q returns A - B * r_50^C.
C3_ZeroR50IsProvided ==
    (/\ call.fn = "k_q"
     /\ call.tpr = None
     /\ call.r_50 # None
     /\ call.model \in DOMAIN ElectronTable) =>
        /\ outcome.status = "returned"
        /\ outcome.value = [eq |-> 37, ch |-> ElectronTable[call.model], x |-> call.r_50]

\* C4: in photon mode k_q rejects every tpr <= 0.623 and every tpr >= 0.805
\* with a ValueError, and returns a factor for every tpr strictly between
\* them when the model is in the photon table.
C4_TprOpenInterval ==
    (/\ call.fn = "k_q"
     /\ call.tpr # None
     /\ call.r_50 = None) =>
        /\ (~RLess(Rat(623, 1000), call.tpr) \/ ~RLess(call.tpr, Rat(805, 1000))) =>
              outcome.status = "ValueError"
        /\ (/\ RLess(Rat(623, 1000), call.tpr)
            /\ RLess(call.tpr, Rat(805, 1000))
            /\ call.model \in DOMAIN Table10) =>
              outcome.status = "returned"

\* c0 * x^2 + c1 * x + c2, term by term
Quadratic(c, x) ==
    IF IsFinite(x)
    THEN RAdd(RAdd(RMul(c[1], RMul(x, x)), RMul(c[2], x)), c[3])
    ELSE NaN

C6_NoEffectBeforeFailure ==
    Failed => (warnings = <<>> /\ tables = <<Table4, Table10, ElectronTable>>)

Negate(m) == [i \in DOMAIN m |-> -m[i]]

\* (|positive_avg| + |negative_avg|) / (2 * reference_avg) of the k_pol call
CallPolarity ==
    NpDiv(RAdd(RAbs(mean(call.m_positive)), RAbs(mean(call.m_negative))),
          RMul(<<2, 1>>, mean(call.m_reference)))

\* C7, as amended: with a non-zero reference average k_pol returns
\* (|positive_avg| + |negative_avg|) / (2 * reference_avg), the same result
\* with the negative readings negated, and the result has the sign of the
\* reference average unless both other averages are zero, when it is 0.
C7_PolarityFormula ==
    (call.fn = "k_pol" /\ mean(call.m_reference)[1] # 0) =>
        /\ outcome.status = "returned"
        /\ outcome.value = CallPolarity
        /\ outcome.value =
              k_pol(call.m_reference, Negate(call.m_negative), call.m_positive).value
        /\ IF mean(call.m_positive)[1] = 0 /\ mean(call.m_negative)[1] = 0
           THEN outcome.value = <<0, 1>>
           ELSE sign(outcome.value) = sign(mean(call.m_reference))

\* same-signed negative and positive readings: the normalisation step acts
C7_Witness ==
    /\ call.fn = "k_pol"
    /\ call.m_reference = <<-1>>
    /\ call.m_negative = <<1, 1>>
    /\ call.m_positive = <<1>>
    /\ outcome.value = <<-1, 1>>

\* C7, as stated: ... and the result always has the sign of the reference
\* average.
C7_PolaritySignOfReference ==
    (call.fn = "k_pol" /\ mean(call.m_reference)[1] # 0) =>
        /\ outcome.status = "returned"
        /\ outcome.value = CallPolarity
        /\ outcome.value =
              k_pol(call.m_reference, Negate(call.m_negative), call.m_positive).value
        /\ sign(outcome.value) = sign(mean(call.m_reference))

\* C8: r_50(i_50) is 1.029 * i_50 - 0.06 up to and including i_50 = 10 and
\* 1.59 * i_50 - 0.37 above it, and it is strictly increasing: every smaller
\* depth gives a smaller result, across the change of branch too.
C8_R50Piecewise ==
    call.fn = "r_50" =>
        /\ outcome.status = "returned"
        /\ \E k \in 0..MaxI50Tenths :
              /\ call.i_50 = Rat(k, 10)
              /\ outcome.value = IF k <= 100
                                 THEN Rat(1029 * k - 600, 10000)
                                 ELSE Rat(159 * k - 370, 1000)
        /\ \A j \in I50s :
              RLess(j, call.i_50) => RLess(r_50(j).value, outcome.value)

\* the boundary depth uses the first branch
C8_Witness ==
    /\ call.fn = "r_50"
    /\ call.i_50 = <<10, 1>>
    /\ outcome.value = Rat(1023, 100)

\* the reference temperature and pressure, in each unit and as bare numbers
ReferenceTemperatures ==
    {[magnitude |-> <<20, 1>>, hg |-> 0, units |-> "celsius"],
     [magnitude |-> <<68, 1>>, hg |-> 0, units |-> "fahrenheit"],
     [magnitude |-> Rat(29315, 100), hg |-> 0, units |-> "kelvin"],
     [magnitude |-> <<20, 1>>, hg |-> 0, units |-> "float"]}

ReferencePressures ==
    {[magnitude |-> Rat(101325, 100), hg |-> 0, units |-> "mbar"],
     [magnitude |-> Rat(101325, 1000), hg |-> 0, units |-> "kPa"],
     [magnitude |-> <<101325, 1>>, hg |-> -1, units |-> "mmHg"],
     [magnitude |-> Rat(101325, 100), hg |-> 0, units |-> "float"]}

\* C9: k_tp is 1.0 at the reference point (20 degrees Celsius, 101.325 kPa)
\* in whatever unit it is given; a bare number is read as Celsius, or as
\* mbar; and for Celsius and mbar inputs, bare or not, k_tp is
\* ((t + 273.15) / 293.15) * (1013.25 / p).
C9_KtpReferencePoint ==
    call.fn = "k_tp" =>
        /\ (call.temp \in ReferenceTemperatures /\ call.press \in ReferencePressures) =>
              (outcome.status = "returned" /\ outcome.value = <<1, 1>>)
        /\ (/\ call.temp.units \in {"float", "celsius"}
            /\ call.press.units \in {"float", "mbar"}
            /\ call.press.magnitude[1] # 0) =>
              /\ outcome.status = "returned"
              /\ outcome.value =
                    RMul(NpDiv(RAdd(call.temp.magnitude, Rat(27315, 100)),
                               Rat(29315, 100)),
                         NpDiv(Rat(101325, 100), call.press.magnitude))

\* 68 degrees Fahrenheit and the reference pressure converted to mmHg
C9_Witness ==
    /\ call.fn = "k_tp"
    /\ call.temp = [magnitude |-> <<68, 1>>, hg |-> 0, units |-> "fahrenheit"]
    /\ call.press = [magnitude |-> <<101325, 1>>, hg |-> -1, units |-> "mmHg"]
    /\ outcome.value = <<1, 1>>

=============================================================================
